---- MODULE Spec2Model ----
(***************************************************************************)
(* Model of manticore/core/worker.py: the Worker.run main loop of a pool   *)
(* of workers over one shared state registry, and the LogCaptureWorker     *)
(* bounded log queue.                                                      *)
(*                                                                         *)
(* Worker.run is translated statement by statement from worker.py.  The    *)
(* registry operations it calls (m._get_state, m._fork, m._save,           *)
(* m._revive_state, m._terminate_state, m._kill_state) live in a file of   *)
(* the repository that is not part of the sources at hand; they are        *)
(* modelled from their contracts in the specification (section 4.2).       *)
(***************************************************************************)
EXTENDS Integers, Sequences, FiniteSets, TLC

(* ------------------------------ bounds --------------------------------- *)
NumWorkers == 2
MaxIds == 3
MaxBranches == 2

NumProducers == 2
LogCap == 2
MaxLogCalls == 4
MaxQueued == 52
MaxSeqCalls == 40
MaxDescs == 2
MaxExecs == 1

(* ----------------------------- constants ------------------------------- *)
DumpLimit == 50
NumSeed == 1
None == 0
NoReason == "none"
Reasons == {"X"}

Workers == 1..NumWorkers
Producers == 1..NumProducers
Ids == 1..MaxIds

VARIABLES
    ready,        \* m._ready_states
    busy,         \* m._busy_states
    terminated,   \* m._terminated_states
    killed,       \* m._killed_states
    store,        \* the registry's id -> saved state record map
    nextId,       \* next fresh state id handed out by fork
    budget,       \* ids still available to forks (bounds the exploration)
    killedFlag,   \* m._killed.value
    pc,           \* per worker: position in Worker.run
    cur,          \* per worker: current_state (its id), None if no state
    curTerm,      \* per worker: current_state._terminated_by
    exc,          \* per worker: the signal/exception in flight
    arg,          \* per worker: branches the Concretize in flight resolves to
    why,          \* per worker: reason carried by the TerminateState in flight
    hname,        \* per worker: which handler block is running
    hi,           \* per worker: index of the next statement of that block
    ops,          \* per worker: calls made so far by the running block
    handed,       \* ids fork returned to its caller instead of queuing them
    queue,        \* m._log_queue, oldest record first
    lpc,          \* per producer thread: position in log_callback
    lmsg,         \* per producer thread: the msg argument
    sent,         \* number of log_callback calls made so far
    dpc,          \* position of the server thread in dump_logs
    di,           \* dump_logs: i
    serialized,   \* dump_logs: serialized.messages
    atDump,       \* the records the queue held when dump_logs was last called
    desc,         \* render_state_descriptors: desc.values(), in mapping order
    out,          \* render_state_descriptors: out.states
    visited,      \* render_state_descriptors: descriptors the for loop has taken
    rpc,          \* position of the monitor thread in render_state_descriptors
    drivenAtKill, \* ids held by a worker in its drive loop when m.kill() was called
    beforeTestAtKill, \* those of them whose worker had yet to read the flag at line 127
    endedAs,      \* for the others: how the execute() call they were in ended
    idleAtKill,   \* was some worker blocked in m._get_state at that moment
    life          \* per worker: the worker lifecycle events it has published

regVars == <<ready, busy, terminated, killed, store, nextId, budget, handed>>
wVars == <<pc, cur, curTerm, exc, arg, why, hname, hi, ops>>
logVars == <<queue, lpc, lmsg, sent, dpc, di, serialized, atDump>>
monVars == <<desc, out, visited, rpc>>
srvVars == <<logVars, monVars>>
killVars == <<drivenAtKill, beforeTestAtKill, idleAtKill>>
histVars == <<killVars, endedAs, life>>
poolVars == <<regVars, killedFlag, wVars, histVars>>
vars == <<ready, busy, terminated, killed, store, nextId, budget, killedFlag,
          pc, cur, curTerm, exc, arg, why, hname, hi, ops, handed,
          queue, lpc, lmsg, sent, dpc, di, serialized, atDump,
          desc, out, visited, rpc,
          drivenAtKill, beforeTestAtKill, idleAtKill, endedAs, life>>

Listed == ready \cup busy \cup terminated \cup killed
Tracked == Listed \cup DOMAIN store

(* ---------------- statement blocks of Worker.run ----------------------- *)
\* variant: the checkpoint saves the state but does not give it back
CheckpointStepsNoRevive == <<"save">>

\* variant: the state is given back before it is saved
CheckpointStepsReviveFirst == <<"revive_state", "save">>

\* while-else block, lines 135-136
CheckpointSteps == <<"save", "revive_state">>
\* except Concretize block, line 149
ForkSteps == <<"fork">>
\* variant: the terminated state is saved but never moved out of busy
TerminateStepsNoMove == <<"will_terminate_state", "set_terminated_by", "save",
                          "did_terminate_state">>

\* variant: the state is saved before the reason is recorded on it
TerminateStepsSaveFirst == <<"will_terminate_state", "save", "set_terminated_by",
                             "terminate_state", "did_terminate_state">>

\* except TerminateState block, lines 155-166
TerminateSteps == <<"will_terminate_state", "set_terminated_by", "save",
                    "terminate_state", "did_terminate_state">>
\* except (Exception, AssertionError) block, lines 182-185
KillSteps == <<"will_kill_state", "save", "kill_state", "did_kill_state">>

Script(h) ==
    CASE h = "checkpoint" -> CheckpointSteps
      [] h = "fork"       -> ForkSteps
      [] h = "terminate"  -> TerminateSteps
      [] h = "kill"       -> KillSteps
      [] OTHER            -> << >>

InHandler(w) == pc[w] = "handler" /\ hi[w] <= Len(Script(hname[w]))
CurOp(w) == IF InHandler(w) THEN Script(hname[w])[hi[w]] ELSE "none"

\* variant: the state is saved under a fresh id
SaveIdFresh(w) == nextId

\* state_id argument of m._save(current_state, state_id=current_state.id)
SaveId(w) == cur[w]

\* variant: the worker keeps its reference to the state it gave back
CurAfterBlockKeep(w) == cur[w]

\* current_state after the block ran: current_state = None (137, 150, 167, 186)
CurAfterBlock(w) == None

\* where control goes after a block: checkpoint, fork and terminate fall to
\* the while test of line 87; the except block ends in break (line 187)
AfterBlock(h) == IF h = "kill" THEN "exit" ELSE "loop"

\* an exception raised inside the inner/outer try goes to the except clause
\* of line 169; one raised inside that clause itself leaves run()
RaiseTarget(w) == IF pc[w] = "handler" /\ hname[w] = "kill" THEN "dead" ELSE "except"

\* variant: a failing worker cancels the whole pool
FlagAfterFailureKill(f) == TRUE

\* does the failure of one worker set the pool-wide kill flag? (it does not)
FlagAfterFailure(f) == f

Enter(w, h) ==
    /\ pc' = [pc EXCEPT ![w] = "handler"]
    /\ hname' = [hname EXCEPT ![w] = h]
    /\ hi' = [hi EXCEPT ![w] = 1]

Advance(w, op) ==
    /\ hi' = [hi EXCEPT ![w] = @ + 1]
    /\ ops' = [ops EXCEPT ![w] = Append(@, op)]
    /\ UNCHANGED <<pc, hname>>

\* an exception that is not an Exception (SystemExit, KeyboardInterrupt)
\* matches none of the clauses of lines 141, 152 and 169: it leaves run()
Escape(w) ==
    /\ pc' = [pc EXCEPT ![w] = "dead"]
    /\ exc' = [exc EXCEPT ![w] = "BaseException"]
    /\ arg' = [arg EXCEPT ![w] = None]
    /\ why' = [why EXCEPT ![w] = NoReason]
    /\ hname' = [hname EXCEPT ![w] = "none"]
    /\ hi' = [hi EXCEPT ![w] = 0]
    /\ ops' = [ops EXCEPT ![w] = << >>]

\* the frame of the raising block is left: its locals are gone
Raise(w, kind) ==
    /\ pc' = [pc EXCEPT ![w] = RaiseTarget(w)]
    /\ exc' = [exc EXCEPT ![w] = kind]
    /\ arg' = [arg EXCEPT ![w] = None]
    /\ why' = [why EXCEPT ![w] = NoReason]
    /\ hname' = [hname EXCEPT ![w] = "none"]
    /\ hi' = [hi EXCEPT ![w] = 0]
    /\ ops' = [ops EXCEPT ![w] = << >>]

(* ------------------------------- Init ---------------------------------- *)
LogIdle ==
    /\ lpc = [p \in Producers |-> "idle"]
    /\ lmsg = [p \in Producers |-> None]
    /\ sent = 0
    /\ dpc = "idle"
    /\ di = 0
    /\ serialized = << >>
    /\ atDump = << >>

LogInit ==
    /\ queue = << >>
    /\ LogIdle

PoolInit ==
    /\ ready = 1..NumSeed
    /\ busy = {}
    /\ terminated = {}
    /\ killed = {}
    /\ store = [i \in 1..NumSeed |-> NoReason]
    /\ nextId = NumSeed + 1
    /\ budget = MaxIds - NumSeed
    /\ killedFlag = FALSE
    /\ pc = [w \in Workers |-> "start"]
    /\ cur = [w \in Workers |-> None]
    /\ curTerm = [w \in Workers |-> NoReason]
    /\ exc = [w \in Workers |-> "none"]
    /\ arg = [w \in Workers |-> None]
    /\ why = [w \in Workers |-> NoReason]
    /\ hname = [w \in Workers |-> "none"]
    /\ hi = [w \in Workers |-> 0]
    /\ ops = [w \in Workers |-> << >>]
    /\ handed = {}
    /\ drivenAtKill = {}
    /\ beforeTestAtKill = {}
    /\ endedAs = << >>
    /\ idleAtKill = FALSE
    /\ life = [w \in Workers |-> << >>]

MonIdle ==
    /\ desc = << >>
    /\ out = << >>
    /\ visited = 0
    /\ rpc = "idle"

Init ==
    /\ LogInit
    /\ MonIdle
    /\ PoolInit

(* ------------------------- Worker.run statements ----------------------- *)
\* line 79: m._publish("will_start_worker", self.id)
StartWorker(w) ==
    /\ pc[w] = "start"
    /\ pc' = [pc EXCEPT ![w] = "loop"]
    /\ life' = [life EXCEPT ![w] = Append(@, "will_start_worker")]
    /\ UNCHANGED <<srvVars, killVars, endedAs, regVars, killedFlag, cur, curTerm, exc, arg, why, hname, hi, ops>>

\* variant: the outer loop is left after one pass
KeepLoopingNever(f) == FALSE

\* line 87: the loop condition not m._killed.value
KeepLooping(f) == ~f

\* line 87: while not m._killed.value
LoopTest(w) ==
    /\ pc[w] = "loop"
    /\ pc' = [pc EXCEPT ![w] = IF ~KeepLooping(killedFlag) THEN "exit" ELSE "get_state"]
    /\ UNCHANGED <<srvVars, histVars, regVars, killedFlag, cur, curTerm, exc, arg, why, hname, hi, ops>>

\* lines 107-114: current_state = m._get_state(wait=True), a state was ready
GetStateSome(w) ==
    /\ pc[w] = "get_state"
    /\ \E id \in ready :
        /\ ready' = ready \ {id}
        /\ busy' = busy \cup {id}
        /\ cur' = [cur EXCEPT ![w] = id]
        /\ curTerm' = [curTerm EXCEPT ![w] = store[id]]
    /\ pc' = [pc EXCEPT ![w] = "assert"]
    /\ ops' = [ops EXCEPT ![w] = << >>]
    /\ UNCHANGED <<srvVars, histVars, terminated, killed, store, nextId, budget, handed,
                   killedFlag, exc, arg, why, hname, hi>>

\* lines 107-114: m._get_state(wait=True) returned None, then break
GetStateNone(w) ==
    /\ pc[w] = "get_state"
    /\ killedFlag \/ (ready = {} /\ busy = {})
    /\ pc' = [pc EXCEPT ![w] = "exit"]
    /\ ops' = [ops EXCEPT ![w] = << >>]
    /\ UNCHANGED <<srvVars, histVars, regVars, killedFlag, cur, curTerm, exc, arg, why, hname, hi>>

\* lines 120-123: assert current_state.id in busy and not in ready
AssertHeld(w) ==
    /\ pc[w] = "assert"
    /\ IF cur[w] \in busy /\ cur[w] \notin ready
       THEN /\ pc' = [pc EXCEPT ![w] = "check"]
            /\ UNCHANGED <<exc, arg, why, hname, hi, ops>>
       ELSE Raise(w, "AssertionError")
    /\ UNCHANGED <<srvVars, histVars, regVars, killedFlag, cur, curTerm>>

\* variant: the drive loop does not look at the kill flag
KeepDrivingAlways(f) == TRUE

\* line 127: the loop condition not m._killed.value
KeepDriving(f) == ~f

\* line 127: while not m._killed.value (else: the block of lines 130-137)
DriveTest(w) ==
    /\ pc[w] = "check"
    /\ IF ~KeepDriving(killedFlag)
       THEN Enter(w, "checkpoint")
       ELSE /\ pc' = [pc EXCEPT ![w] = "execute"]
            /\ UNCHANGED <<hname, hi>>
    /\ UNCHANGED <<srvVars, histVars, regVars, killedFlag, cur, curTerm, exc, arg, why, ops>>

\* the ids whose worker had passed the test of line 127 when m.kill() was
\* called: their execute() call was about to start or in progress
PastTestAtKill == drivenAtKill \ beforeTestAtKill

\* observation: the execute() call of such an id ends with outcome kind
Ended(w, kind) ==
    endedAs' = IF killedFlag /\ cur[w] \in PastTestAtKill
               THEN [i \in DOMAIN endedAs \cup {cur[w]} |->
                        IF i = cur[w] THEN kind ELSE endedAs[i]]
               ELSE endedAs

\* line 128: current_state.execute() returns normally
ExecuteStep(w) ==
    /\ pc[w] = "execute"
    /\ pc' = [pc EXCEPT ![w] = "check"]
    /\ Ended(w, "returned")
    /\ UNCHANGED <<srvVars, killVars, life, regVars, killedFlag, cur, curTerm, exc, arg, why, hname, hi, ops>>

\* line 128 raising Concretize, caught at line 141
ExecuteConcretize(w) ==
    /\ pc[w] = "execute"
    /\ \E n \in 1..MaxBranches :
        /\ n <= budget
        /\ budget' = budget - n
        /\ arg' = [arg EXCEPT ![w] = n]
    /\ exc' = [exc EXCEPT ![w] = "Concretize"]
    /\ Enter(w, "fork")
    /\ Ended(w, "Concretize")
    /\ UNCHANGED <<srvVars, killVars, life, ready, busy, terminated, killed, store, nextId, handed,
                   killedFlag, cur, curTerm, why, ops>>

\* line 128 raising TerminateState, caught at line 152
ExecuteTerminate(w) ==
    /\ pc[w] = "execute"
    /\ \E r \in Reasons : why' = [why EXCEPT ![w] = r]
    /\ exc' = [exc EXCEPT ![w] = "TerminateState"]
    /\ Enter(w, "terminate")
    /\ Ended(w, "TerminateState")
    /\ UNCHANGED <<srvVars, killVars, life, regVars, killedFlag, cur, curTerm, arg, ops>>

\* line 128 raising any other Exception (AssertionError included), caught
\* by except (Exception, AssertionError) at line 169
ExecuteFail(w) ==
    /\ pc[w] = "execute"
    /\ Raise(w, "Exception")
    /\ Ended(w, "Exception")
    /\ UNCHANGED <<srvVars, killVars, life, regVars, killedFlag, cur, curTerm>>

\* line 128 raising SystemExit or KeyboardInterrupt: no clause catches it,
\* run() is left through the with of line 84, line 192 is not reached
ExecuteEscape(w) ==
    /\ pc[w] = "execute"
    /\ Escape(w)
    /\ Ended(w, "BaseException")
    /\ UNCHANGED <<srvVars, killVars, life, regVars, killedFlag, cur, curTerm>>

\* lines 169-176 and 187: except clause, if current_state is not None, break
Except(w) ==
    /\ pc[w] = "except"
    /\ IF cur[w] # None
       THEN /\ Enter(w, "kill")
            /\ UNCHANGED exc
       ELSE /\ pc' = [pc EXCEPT ![w] = "exit"]
            /\ exc' = [exc EXCEPT ![w] = "none"]
            /\ UNCHANGED <<hname, hi>>
    /\ killedFlag' = FlagAfterFailure(killedFlag)
    /\ UNCHANGED <<srvVars, histVars, regVars, cur, curTerm, arg, why, ops>>

\* m._publish(...) calls of lines 155, 166, 182, 185
Publish(w) ==
    /\ CurOp(w) \in {"will_terminate_state", "did_terminate_state",
                     "will_kill_state", "did_kill_state"}
    /\ Advance(w, CurOp(w))
    /\ UNCHANGED <<srvVars, histVars, regVars, killedFlag, cur, curTerm, exc, arg, why>>

\* line 158: current_state._terminated_by = exc; when current_state is None
\* (the signal came from m._get_state) the assignment raises AttributeError
SetTerminatedBy(w) ==
    /\ CurOp(w) = "set_terminated_by"
    /\ IF cur[w] # None
       THEN /\ curTerm' = [curTerm EXCEPT ![w] = why[w]]
            /\ Advance(w, "set_terminated_by")
            /\ UNCHANGED <<exc, arg, why>>
       ELSE /\ Raise(w, "Exception")
            /\ UNCHANGED curTerm
    /\ UNCHANGED <<srvVars, histVars, regVars, killedFlag, cur>>

\* m._save(current_state, state_id=current_state.id), lines 135, 160, 183
Save(w) ==
    /\ CurOp(w) = "save"
    /\ LET sid == SaveId(w) IN
        store' = [i \in DOMAIN store \cup {sid} |->
                     IF i = sid THEN curTerm[w] ELSE store[i]]
    /\ Advance(w, "save")
    /\ UNCHANGED <<srvVars, histVars, ready, busy, terminated, killed, nextId, budget, handed,
                   killedFlag, cur, curTerm, exc, arg, why>>

\* m._revive_state(current_state.id), line 136
ReviveState(w) ==
    /\ CurOp(w) = "revive_state"
    /\ IF cur[w] \in busy
       THEN /\ busy' = busy \ {cur[w]}
            /\ ready' = ready \cup {cur[w]}
            /\ Advance(w, "revive_state")
            /\ UNCHANGED <<exc, arg, why>>
       ELSE /\ Raise(w, "Exception")
            /\ UNCHANGED <<ready, busy>>
    /\ UNCHANGED <<srvVars, histVars, terminated, killed, store, nextId, budget, handed,
                   killedFlag, cur, curTerm>>

\* m._terminate_state(current_state.id), line 164
TerminateState(w) ==
    /\ CurOp(w) = "terminate_state"
    /\ IF cur[w] \in busy
       THEN /\ busy' = busy \ {cur[w]}
            /\ terminated' = terminated \cup {cur[w]}
            /\ Advance(w, "terminate_state")
            /\ UNCHANGED <<exc, arg, why>>
       ELSE /\ Raise(w, "Exception")
            /\ UNCHANGED <<busy, terminated>>
    /\ UNCHANGED <<srvVars, histVars, ready, killed, store, nextId, budget, handed,
                   killedFlag, cur, curTerm>>

\* variant: killState moves the id to killed from whichever list holds it
KillStateAnyList(w) ==
    /\ CurOp(w) = "kill_state"
    /\ ready' = ready \ {cur[w]}
    /\ busy' = busy \ {cur[w]}
    /\ terminated' = terminated \ {cur[w]}
    /\ killed' = killed \cup {cur[w]}
    /\ Advance(w, "kill_state")
    /\ UNCHANGED <<srvVars, histVars, store, nextId, budget, handed,
                   killedFlag, cur, curTerm, exc, arg, why>>

\* m._kill_state(current_state.id), line 184
KillState(w) ==
    /\ CurOp(w) = "kill_state"
    /\ IF cur[w] \in busy
       THEN /\ busy' = busy \ {cur[w]}
            /\ killed' = killed \cup {cur[w]}
            /\ Advance(w, "kill_state")
            /\ UNCHANGED <<exc, arg, why>>
       ELSE /\ Raise(w, "Exception")
            /\ UNCHANGED <<busy, killed>>
    /\ UNCHANGED <<srvVars, histVars, ready, terminated, store, nextId, budget, handed,
                   killedFlag, cur, curTerm>>

\* m._fork(current_state, exc.expression, exc.policy, exc.setstate), line 149;
\* called with no state (the signal came from m._get_state) it has nothing
\* to resolve the condition on and raises
Fork(w) ==
    /\ CurOp(w) = "fork"
    /\ IF cur[w] = None
       THEN /\ Raise(w, "Exception")
            /\ UNCHANGED <<ready, busy, store, nextId, handed>>
       ELSE /\ cur[w] \in busy
            /\ \E keep \in BOOLEAN :
                LET n == arg[w]
                    fresh == nextId..(nextId + n - 1)
                    ret == IF keep THEN nextId + n - 1 ELSE None
                    queued == fresh \ {ret}
                IN  /\ ready' = ready \cup queued
                    /\ busy' = busy \ {cur[w]}
                    /\ store' = [i \in (DOMAIN store \cup queued) \ {cur[w]} |->
                                    IF i \in queued THEN NoReason ELSE store[i]]
                    /\ nextId' = nextId + n
                    /\ handed' = IF keep THEN handed \cup {ret} ELSE handed
            /\ Advance(w, "fork")
            /\ UNCHANGED <<exc, arg, why>>
    /\ UNCHANGED <<srvVars, histVars, terminated, killed, budget, killedFlag, cur, curTerm>>

\* the statement closing each block: current_state = None, then the
\* assert of line 139 / the break of line 187
EndBlock(w) ==
    /\ pc[w] = "handler"
    /\ hi[w] > Len(Script(hname[w]))
    /\ cur' = [cur EXCEPT ![w] = CurAfterBlock(w)]
    /\ curTerm' = [curTerm EXCEPT ![w] = NoReason]
    /\ pc' = [pc EXCEPT ![w] = AfterBlock(hname[w])]
    /\ exc' = [exc EXCEPT ![w] = "none"]
    /\ arg' = [arg EXCEPT ![w] = None]
    /\ why' = [why EXCEPT ![w] = NoReason]
    /\ hname' = [hname EXCEPT ![w] = "none"]
    /\ hi' = [hi EXCEPT ![w] = 0]
    /\ ops' = [ops EXCEPT ![w] = << >>]
    /\ UNCHANGED <<srvVars, histVars, regVars, killedFlag>>

\* line 192: m._publish("did_terminate_worker", self.id)
ExitWorker(w) ==
    /\ pc[w] = "exit"
    /\ pc' = [pc EXCEPT ![w] = "done"]
    /\ life' = [life EXCEPT ![w] = Append(@, "did_terminate_worker")]
    /\ UNCHANGED <<srvVars, killVars, endedAs, regVars, killedFlag, cur, curTerm, exc, arg, why, hname, hi, ops>>

\* m.kill(), line 84: sets m._killed
Kill ==
    /\ ~killedFlag
    /\ killedFlag' = TRUE
    /\ UNCHANGED <<srvVars, histVars, regVars, wVars>>

\* where a worker is with respect to the drive loop of lines 127-128:
\* blocked in m._get_state; holding a state with the test of line 127 still
\* to come (it will read the flag before any execute() call); past that
\* test, with the execute() call about to start or in progress; elsewhere
Phase(w) ==
    CASE pc[w] = "get_state" /\ ready = {} /\ busy # {} -> "idle"
      [] pc[w] \in {"assert", "check"} -> "before_test"
      [] pc[w] = "execute" -> "past_test"
      [] OTHER -> "other"

\* m.kill() as above, observed: records where every worker was
KillObserved ==
    /\ ~killedFlag
    /\ killedFlag' = TRUE
    /\ drivenAtKill' = {cur[w] : w \in {v \in Workers : Phase(v) \in {"before_test", "past_test"}}}
    /\ beforeTestAtKill' = {cur[w] : w \in {v \in Workers : Phase(v) = "before_test"}}
    /\ idleAtKill' = (\E w \in Workers : Phase(w) = "idle")
    /\ UNCHANGED <<srvVars, regVars, wVars, life, endedAs>>

(* ---------------- failures of the calls made by the blocks ------------- *)
\* a call of a block (publish, save, a list move, fork before it changed
\* anything) raises an Exception that the clauses of lines 141 and 152 do
\* not catch, or raises any Exception inside one of those clauses
OpFail(w) ==
    /\ InHandler(w)
    /\ hname[w] # "kill"
    /\ CurOp(w) # "set_terminated_by"
    /\ Raise(w, "Exception")
    /\ UNCHANGED <<srvVars, histVars, regVars, killedFlag, cur, curTerm>>

\* a call of the except block of lines 182-185 raises an Exception
GuardFail(w) ==
    /\ InHandler(w)
    /\ hname[w] = "kill"
    /\ Raise(w, "Exception")
    /\ UNCHANGED <<srvVars, histVars, regVars, killedFlag, cur, curTerm>>

\* m._fork raises after some of the successors were queued
ForkFailPartial(w) ==
    /\ CurOp(w) = "fork"
    /\ \E k \in 1..(arg[w] - 1) :
        LET queued == nextId..(nextId + k - 1)
        IN  /\ ready' = ready \cup queued
            /\ store' = [i \in DOMAIN store \cup queued |->
                            IF i \in queued THEN NoReason ELSE store[i]]
            /\ nextId' = nextId + k
    /\ Raise(w, "Exception")
    /\ UNCHANGED <<srvVars, histVars, busy, terminated, killed, budget, handed,
                   killedFlag, cur, curTerm>>

\* m._get_state raises an Exception other than Concretize and TerminateState
\* (line 107), current_state is still None
GetStateFail(w) ==
    /\ pc[w] = "get_state"
    /\ Raise(w, "Exception")
    /\ UNCHANGED <<srvVars, histVars, regVars, killedFlag, cur, curTerm>>

\* the calls made inside the try of line 92 before any clause is entered:
\* m._get_state (line 107), m._save (line 135), m._revive_state (line 136)
InTryBody(w) ==
    \/ pc[w] = "get_state"
    \/ InHandler(w) /\ hname[w] = "checkpoint"

\* such a call raises TerminateState before it changed anything: the clause
\* of line 152 catches it and its block runs on current_state as it is (None
\* when the call was m._get_state)
CallTerminate(w) ==
    /\ InTryBody(w)
    /\ \E r \in Reasons : why' = [why EXCEPT ![w] = r]
    /\ exc' = [exc EXCEPT ![w] = "TerminateState"]
    /\ Enter(w, "terminate")
    /\ ops' = [ops EXCEPT ![w] = << >>]
    /\ UNCHANGED <<srvVars, histVars, regVars, killedFlag, cur, curTerm, arg>>

\* such a call raises Concretize before it changed anything: the clause of
\* line 141 catches it and m._fork is called on current_state as it is
CallConcretize(w) ==
    /\ InTryBody(w)
    /\ \E n \in 1..MaxBranches :
        /\ n <= budget
        /\ budget' = budget - n
        /\ arg' = [arg EXCEPT ![w] = n]
    /\ exc' = [exc EXCEPT ![w] = "Concretize"]
    /\ Enter(w, "fork")
    /\ ops' = [ops EXCEPT ![w] = << >>]
    /\ UNCHANGED <<srvVars, histVars, ready, busy, terminated, killed, store, nextId, handed,
                   killedFlag, cur, curTerm, why>>

\* m._get_state or a call of any block raises SystemExit or
\* KeyboardInterrupt before it changed anything: run() is left
CallEscape(w) ==
    /\ \/ pc[w] = "get_state"
       \/ InHandler(w) /\ CurOp(w) # "set_terminated_by"
    /\ Escape(w)
    /\ UNCHANGED <<srvVars, histVars, regVars, killedFlag, cur, curTerm>>

(* ------------------- LogCaptureWorker, lines 279-294 ------------------- *)
\* q.full(): the queue holds maxsize records
Full(q) == Len(q) >= LogCap

\* q.empty()
Empty(q) == Len(q) = 0

\* a logging thread calls log_callback(msg); line 281: if q.full()
\* (records are numbered in call order; at most max calls are made)
CallTest(p, max) ==
    /\ lpc[p] = "idle"
    /\ sent < max
    /\ sent' = sent + 1
    /\ lmsg' = [lmsg EXCEPT ![p] = sent + 1]
    /\ lpc' = [lpc EXCEPT ![p] = IF Full(queue) THEN "get" ELSE "put"]
    /\ UNCHANGED <<poolVars, monVars, queue, dpc, di, serialized, atDump>>

LogCallFull(p) == CallTest(p, MaxLogCalls)

\* variant: q.get() takes the newest record
AfterGetNewest(q) == SubSeq(q, 1, Len(q) - 1)

\* q.get(): the queue without its oldest record
AfterGet(q) == Tail(q)

\* line 282: q.get(), blocks while the queue is empty
LogCallGet(p) ==
    /\ lpc[p] = "get"
    /\ ~Empty(queue)
    /\ queue' = AfterGet(queue)
    /\ lpc' = [lpc EXCEPT ![p] = "put"]
    /\ UNCHANGED <<poolVars, monVars, lmsg, sent, dpc, di, serialized, atDump>>

\* line 283: q.put(msg), blocks while the queue is full; then returns
LogCallPut(p) ==
    /\ lpc[p] = "put"
    /\ ~Full(queue)
    /\ queue' = Append(queue, lmsg[p])
    /\ lpc' = [lpc EXCEPT ![p] = "idle"]
    /\ lmsg' = [lmsg EXCEPT ![p] = None]
    /\ UNCHANGED <<poolVars, monVars, sent, dpc, di, serialized, atDump>>

\* lines 286-289: dump_logs is called by the TCP handler
DumpStart ==
    /\ dpc = "idle"
    /\ dpc' = "test"
    /\ di' = 0
    /\ serialized' = << >>
    /\ atDump' = queue
    /\ UNCHANGED <<poolVars, monVars, queue, lpc, lmsg, sent>>

\* variant: the loop test admits one record more
DumpContinueInclusive(i, q) == i <= DumpLimit /\ ~Empty(q)

\* line 290: the loop condition i < 50 and not q.empty()
DumpContinue(i, q) == i < DumpLimit /\ ~Empty(q)

\* line 290: while i < 50 and not q.empty(); line 294 when it is false
DumpTest ==
    /\ dpc = "test"
    /\ dpc' = IF DumpContinue(di, queue) THEN "get" ELSE "idle"
    /\ UNCHANGED <<poolVars, monVars, queue, lpc, lmsg, sent, di, serialized, atDump>>

\* lines 291-293: msg = LogMessage(content=q.get()); append; i += 1
DumpGet ==
    /\ dpc = "get"
    /\ ~Empty(queue)
    /\ serialized' = Append(serialized, Head(queue))
    /\ queue' = Tail(queue)
    /\ di' = di + 1
    /\ dpc' = "test"
    /\ UNCHANGED <<poolVars, monVars, lpc, lmsg, sent, atDump>>

LogNext ==
    \/ \E p \in Producers : LogCallFull(p) \/ LogCallGet(p) \/ LogCallPut(p)
    \/ DumpStart
    \/ DumpTest
    \/ DumpGet

LogSpec == Init /\ [][LogNext]_vars

\* one logging thread alone: its calls of log_callback follow one another
\* and dump_logs is not called
TheProducer == 1

SeqCallFull == CallTest(TheProducer, MaxSeqCalls)

SeqNext ==
    \/ SeqCallFull
    \/ LogCallGet(TheProducer)
    \/ LogCallPut(TheProducer)

EvictSpec == Init /\ [][SeqNext]_vars

\* the server thread alone, on a queue that already holds k records
\* (numbered in arrival order) and that no thread is logging to
DumpInit ==
    /\ \E k \in 0..MaxQueued : queue = [i \in 1..k |-> i]
    /\ LogIdle
    /\ MonIdle
    /\ PoolInit

DumpNext ==
    \/ DumpStart
    \/ DumpTest
    \/ DumpGet

DumpSpec == DumpInit /\ [][DumpNext]_vars

(* -------------- render_state_descriptors, lines 317-348 ---------------- *)
StateListNames == {"ready", "busy", "terminated", "killed"}
StatusNames == {"running", "destroyed"}

\* what a descriptor carries besides its id
DescAttrs == [status : StatusNames, state_list : StateListNames,
              termination_msg : Reasons \cup {NoReason}, own_execs : 0..MaxExecs]

\* the values of a mapping id -> descriptor over the ids 1..n
DescValues(n) ==
    {[i \in 1..n |-> [state_id |-> i,
                      status |-> f[i].status,
                      state_list |-> f[i].state_list,
                      termination_msg |-> f[i].termination_msg,
                      own_execs |-> f[i].own_execs]] : f \in [1..n -> DescAttrs]}

\* lines 325-330: the dict from StateLists members to wire types
WireType(l) ==
    CASE l = "ready" -> "READY"
      [] l = "busy" -> "BUSY"
      [] l = "terminated" -> "TERMINATED"
      [] l = "killed" -> "KILLED"

\* variant: destroyed descriptors are rendered too
RenderedAll(st) == TRUE

\* line 320: if st.status != StateStatus.destroyed
Rendered(st) == st.status # "destroyed"

\* lines 323-336: State(id=..., type=..., reason=..., num_executing=...)
\* (wait_time depends on the clock and is left out)
WireRecord(st) ==
    [id |-> st.state_id,
     type |-> WireType(st.state_list),
     reason |-> st.termination_msg,
     num_executing |-> st.own_execs]

\* lines 319-337: one iteration of for st in desc.values()
RenderStep ==
    /\ rpc = "loop"
    /\ visited < Len(desc)
    /\ LET st == desc[visited + 1]
       IN  out' = IF Rendered(st) THEN Append(out, WireRecord(st)) ELSE out
    /\ visited' = visited + 1
    /\ UNCHANGED <<poolVars, logVars, desc, rpc>>

\* line 338: return out
RenderReturn ==
    /\ rpc = "loop"
    /\ visited = Len(desc)
    /\ rpc' = "done"
    /\ UNCHANGED <<poolVars, logVars, desc, out, visited>>

\* lines 346-347: dump_states renders the mapping introspect() returned
RenderInit ==
    /\ \E n \in 0..MaxDescs : desc \in DescValues(n)
    /\ out = << >>
    /\ visited = 0
    /\ rpc = "loop"
    /\ LogInit
    /\ PoolInit

RenderNext == RenderStep \/ RenderReturn

RenderSpec == RenderInit /\ [][RenderNext]_vars

(* --------------------------- specifications ---------------------------- *)
WorkerStep(w) ==
    \/ StartWorker(w)
    \/ LoopTest(w)
    \/ GetStateSome(w)
    \/ GetStateNone(w)
    \/ AssertHeld(w)
    \/ DriveTest(w)
    \/ ExecuteStep(w)
    \/ ExecuteConcretize(w)
    \/ ExecuteTerminate(w)
    \/ ExecuteFail(w)
    \/ Except(w)
    \/ Publish(w)
    \/ SetTerminatedBy(w)
    \/ Save(w)
    \/ ReviveState(w)
    \/ TerminateState(w)
    \/ KillState(w)
    \/ Fork(w)
    \/ EndBlock(w)
    \/ ExitWorker(w)

FaultStep(w) ==
    \/ OpFail(w)
    \/ ForkFailPartial(w)
    \/ GetStateFail(w)
    \/ CallTerminate(w)
    \/ CallConcretize(w)

Next == Kill \/ \E w \in Workers : WorkerStep(w)

Spec == Init /\ [][Next]_vars

\* some worker thread that can run takes a step
PoolStep == \E w \in Workers : WorkerStep(w)

\* the pool with m.kill() observed; the scheduler keeps running the threads
\* (a runnable pool is not stalled forever)
NextK == KillObserved \/ \E w \in Workers : WorkerStep(w)

ShutdownSpec == Init /\ [][NextK]_vars /\ WF_vars(PoolStep)

\* execute() raising one of its signals
ExecuteRaise == \E w \in Workers :
    ExecuteConcretize(w) \/ ExecuteTerminate(w) \/ ExecuteFail(w)

\* the scheduler keeps running the threads, and the states being driven
\* are not all advanced forever without a signal
ExhaustSpec == Init /\ [][Next]_vars /\ WF_vars(PoolStep) /\ SF_vars(ExecuteRaise)

\* the pool when execute() may also raise what line 169 does not catch
NextE == Next \/ \E w \in Workers : ExecuteEscape(w)

SpecE == Init /\ [][NextE]_vars

NextH == NextE \/ \E w \in Workers : FaultStep(w)

SpecH == Init /\ [][NextH]_vars

NextF == NextH \/ \E w \in Workers : GuardFail(w) \/ CallEscape(w)

SpecF == Init /\ [][NextF]_vars

(* ------------------------------ properties ----------------------------- *)
ListNames == {"ready", "busy", "terminated", "killed"}

ListOf(l) ==
    CASE l = "ready" -> ready
      [] l = "busy" -> busy
      [] l = "terminated" -> terminated
      [] l = "killed" -> killed

ListsHolding(id) == {l \in ListNames : id \in ListOf(l)}

\* all calls of the running block returned; only the closing statement
\* current_state = None is left
BlockDone(w) == pc[w] = "handler" /\ hi[w] > Len(Script(hname[w]))

\* worker w is in the while-else block of lines 130-137
InCheckpointBlock(w) == pc[w] = "handler" /\ hname[w] = "checkpoint"

\* m._revive_state (line 136) has returned and current_state = None
\* (line 137) has not run yet
Revived(w) == InCheckpointBlock(w) /\ BlockDone(w)

\* the local current_state of w names a state; a run() that was left by an
\* exception has no locals any more
Holds(w) == cur[w] # None /\ pc[w] # "dead"

\* C1: every id tracked by the registry (listed or saved in its map) is a
\* member of exactly one of the lists ready, busy, terminated, killed; in
\* particular no id is in busy and in ready at the same time.
C1_ExactlyOneList ==
    /\ \A id \in Tracked : Cardinality(ListsHolding(id)) = 1
    /\ busy \cap ready = {}

\* C1 witness: fork (fresh ids were handed out), terminateState and killState have all acted while at
\* least two ids are tracked
C1_Witness ==
    /\ nextId > NumSeed + 1
    /\ terminated # {}
    /\ killed # {}
    /\ Cardinality(Tracked) >= 2

\* C2 (as stated): two distinct workers never have the same state id as
\* their current state at the same time, and the id getState returned is in
\* busy and not in ready when the worker evaluates the assertion of lines
\* 120-123, which never fails.
C2_AsStated ==
    /\ \A w1, w2 \in Workers :
          (w1 # w2 /\ cur[w1] # None /\ cur[w2] # None) => cur[w1] # cur[w2]
    /\ \A w \in Workers :
          pc[w] = "assert" => (cur[w] \in busy /\ cur[w] \notin ready)
    /\ \A w \in Workers : exc[w] # "AssertionError"

\* C2 (amended): two distinct workers have the same state id as their
\* current state only while one of them has returned from m._revive_state
\* on it (line 136) and has not yet cleared current_state (line 137); the
\* only thing that worker still does with it is clear the variable, touching
\* no list; and the id getState returned is in busy and not in ready when
\* the worker evaluates the assertion of lines 120-123, which never fails.
C2_SingleOwner ==
    /\ [](/\ \A w1, w2 \in Workers :
                (w1 # w2 /\ cur[w1] # None /\ cur[w1] = cur[w2]) =>
                    (Revived(w1) \/ Revived(w2))
          /\ \A w \in Workers :
                pc[w] = "assert" => (cur[w] \in busy /\ cur[w] \notin ready)
          /\ \A w \in Workers : exc[w] # "AssertionError")
    /\ [][\A w \in Workers :
            (Revived(w) /\ <<pc[w], hi[w], cur[w]>> # <<pc'[w], hi'[w], cur'[w]>>) =>
                (cur'[w] = None /\ pc'[w] = "loop" /\ UNCHANGED regVars)]_vars

\* C2 witness: two workers are driving two different states concurrently
C2_Witness ==
    \E w1, w2 \in Workers :
        /\ w1 # w2
        /\ pc[w1] = "execute"
        /\ pc[w2] = "execute"
        /\ cur[w1] # cur[w2]

AllDone == \A w \in Workers : pc[w] = "done"

C4_Exhaustion ==
    /\ <>AllDone
    /\ [][\A w \in Workers :
            (pc[w] = "get_state" /\ ready = {} /\ busy = {})
                => (pc'[w] \in {"get_state", "exit"} /\ cur'[w] = None)]_vars

\* C4 witness: the kill flag is false, ready and busy are empty, one worker
\* has exited and another is about to be released from getState
C4_Witness ==
    /\ ~killedFlag
    /\ ready = {}
    /\ busy = {}
    /\ terminated # {}
    /\ \E w1, w2 \in Workers :
        /\ pc[w1] = "done"
        /\ pc[w2] = "get_state"

\* worker w is in the except block of lines 169-187
InKillBlock(w) == pc[w] = "handler" /\ hname[w] = "kill"

\* C5 (as stated): when execute() raises any failure other than the fork
\* or terminate signal, the worker publishes will_kill_state, saves the
\* state under its existing id, calls killState and publishes
\* did_kill_state, in that order, after which the state is in killed; the
\* worker then leaves its loop through break (no exception leaves run())
\* and never calls getState again.
C5_FailureKillsState ==
    /\ [](\A w \in Workers :
            /\ pc[w] = "except" => cur[w] \in busy
            /\ (InKillBlock(w) /\ BlockDone(w)) =>
                  /\ ops[w] = <<"will_kill_state", "save", "kill_state", "did_kill_state">>
                  /\ cur[w] \in killed
                  /\ cur[w] \in DOMAIN store
                  /\ ListsHolding(cur[w]) = {"killed"})
    /\ [](\A w \in Workers : pc[w] # "dead")
    /\ [][\A w \in Workers :
            /\ (pc[w] = "execute" /\ exc'[w] \in {"Exception", "BaseException"}) =>
                  pc'[w] = "except"
            /\ (pc[w] = "execute" /\ pc'[w] = "except") => cur'[w] = cur[w]
            /\ (pc[w] = "except" /\ pc'[w] # "except") => InKillBlock(w)'
            /\ InKillBlock(w) => (InKillBlock(w)' \/ pc'[w] = "exit")
            /\ pc[w] = "exit" => pc'[w] \in {"exit", "done"}
            /\ pc[w] = "done" => pc'[w] = "done"]_vars

\* worker w takes a step of its failure handling: execute() raises, the
\* except clause is entered, or a statement of the except block runs
FailureStep(w) ==
    \/ pc[w] = "execute" /\ pc'[w] \in {"except", "dead"}
    \/ pc[w] = "except" /\ pc'[w] # "except"
    \/ InKillBlock(w) /\ <<pc[w], hi[w]>> # <<pc'[w], hi'[w]>>

\* C6: a step of one worker's failure handling changes the list membership
\* of no id but the one that worker was driving, leaves every other
\* worker's current state and position as they were, and does not set the
\* kill flag, so the other workers go on acquiring and driving states.
C6_CrashIsolation ==
    [][\A w \in Workers : FailureStep(w) =>
          /\ \A v \in Workers \ {w} : pc'[v] = pc[v] /\ cur'[v] = cur[v]
          /\ \A id \in Ids \ {cur[w]} :
                /\ (id \in ready) = (id \in ready')
                /\ (id \in busy) = (id \in busy')
                /\ (id \in terminated) = (id \in terminated')
                /\ (id \in killed) = (id \in killed')
          /\ killedFlag' = killedFlag
          /\ \A v \in Workers \ {w} :
                (pc[v] = "get_state" /\ ready \ {cur[w]} # {}) => ENABLED GetStateSome(v)]_vars

\* C6 witness: one worker has failed and left its loop with its state in
\* killed while another worker, the kill flag still false, is driving a
\* different state
C6_Witness ==
    \E w, v \in Workers :
        /\ w # v
        /\ pc[w] = "done"
        /\ killed # {}
        /\ ~killedFlag
        /\ pc[v] = "execute"
        /\ cur[v] \in busy
        /\ cur[v] \notin killed

\* C7 (as stated): when a call made while handling a fork or terminate
\* signal raises, the worker treats it like an unrecoverable failure: the
\* except block runs to its end with the current state saved and in killed,
\* the worker leaves its loop through break (never by an exception escaping
\* run), and the lists still partition the tracked ids.
C7_HandlerFailureKillsState ==
    /\ \A w \in Workers :
          /\ pc[w] # "dead"
          /\ (InKillBlock(w) /\ BlockDone(w)) =>
                (cur[w] \in killed /\ cur[w] \in DOMAIN store)
    /\ \A id \in Tracked : Cardinality(ListsHolding(id)) = 1

\* C8: an id in terminated stays in terminated and an id in killed stays in
\* killed, in that list only, whatever step is taken (the save and killState
\* of the except block and revive included); getState never returns such an
\* id.
C8_TerminalListsFinal ==
    [][/\ \A id \in terminated : id \in terminated' /\ id \notin (ready' \cup busy' \cup killed')
       /\ \A id \in killed : id \in killed' /\ id \notin (ready' \cup busy' \cup terminated')
       /\ \A w \in Workers :
            (pc[w] = "get_state" /\ pc'[w] = "assert") =>
                cur'[w] \notin (terminated \cup killed)]_vars

\* C8 witness: the except block saved and called killState on a state that
\* was already in terminated; the state is still there
C8_Witness ==
    \E w \in Workers :
        /\ pc[w] = "dead"
        /\ cur[w] \in terminated
        /\ cur[w] \notin killed

\* C9: when m._fork returns for a signal resolving to N branches and keeps
\* none of them, ready has grown by exactly N fresh ids that are in no other
\* list, the forked state S is in none of the four lists (so not in busy);
\* the worker then drops S and goes back to the loop test and to getState
\* holding no state.
C9_ForkBookkeeping ==
    [][\A w \in Workers :
        /\ (CurOp(w) = "fork" /\ hi'[w] = hi[w] + 1 /\ handed' = handed) =>
              /\ ready \subseteq ready'
              /\ Cardinality(ready') = Cardinality(ready) + arg[w]
              /\ \A id \in ready' \ ready :
                    /\ id \notin Tracked
                    /\ id \notin (busy' \cup terminated' \cup killed')
              /\ cur[w] \notin (ready' \cup busy' \cup terminated' \cup killed')
              /\ busy' = busy \ {cur[w]}
              /\ terminated' = terminated
              /\ killed' = killed
        /\ (pc[w] = "handler" /\ hname[w] = "fork" /\ BlockDone(w) /\ pc'[w] # "handler") =>
              (cur'[w] = None /\ pc'[w] = "loop")
        /\ (pc[w] = "loop" /\ pc'[w] = "get_state") => cur'[w] = None]_vars

\* C9 witness: a fork resolving to two branches kept none: both fresh ids
\* are in ready and the forked state is in no list
C9_Witness ==
    \E w \in Workers :
        /\ pc[w] = "handler"
        /\ hname[w] = "fork"
        /\ BlockDone(w)
        /\ arg[w] = 2
        /\ handed = {}
        /\ {nextId - 1, nextId - 2} \subseteq ready
        /\ cur[w] \notin Listed

\* C10 (as stated): a thread inside log_callback is never blocked: when it
\* is about to call q.get() the queue is not empty, and when it is about to
\* call q.put(msg) the queue is not full.
C10_ProducerNeverBlocks ==
    \A p \in Producers :
        /\ lpc[p] = "get" => ~Empty(queue)
        /\ lpc[p] = "put" => ~Full(queue)

Min(a, b) == IF a < b THEN a ELSE b

\* C11: with no concurrent producer, dump_logs called on a queue holding k
\* records returns exactly the min(k, 50) oldest records in arrival order,
\* removes exactly those, leaves the other k - min(k, 50) records in their
\* order, and never returns more than 50 records.
C11_DumpOldestFifty ==
    [][(dpc = "test" /\ dpc' = "idle") =>
          LET k == Len(atDump)
              n == Min(k, 50)
          IN  /\ serialized' = SubSeq(atDump, 1, n)
              /\ queue' = SubSeq(atDump, n + 1, k)
              /\ Len(serialized') <= 50]_vars

\* C11 witness: dump_logs has returned from a queue that held more than 50
\* records: 50 were returned and the rest are still queued
C11_Witness ==
    /\ dpc = "idle"
    /\ Len(atDump) > 50
    /\ Len(serialized) = 50
    /\ Len(queue) = Len(atDump) - 50
    /\ Len(queue) > 0

\* C12: render_state_descriptors returns exactly one wire record for every
\* descriptor whose status is not destroyed and none for a destroyed one;
\* the record carries the descriptor's id, reason and execution counter
\* unchanged, and the type READY, BUSY, TERMINATED or KILLED of the list
\* ready, busy, terminated or killed the descriptor is in.
C12_SnapshotRendering ==
    rpc = "done" =>
        /\ Len(out) = Cardinality({i \in 1..Len(desc) : desc[i].status # "destroyed"})
        /\ \A i \in 1..Len(desc) :
              LET recs == {j \in 1..Len(out) : out[j].id = desc[i].state_id}
              IN  IF desc[i].status = "destroyed"
                  THEN recs = {}
                  ELSE /\ Cardinality(recs) = 1
                       /\ \A j \in recs :
                             /\ out[j].reason = desc[i].termination_msg
                             /\ out[j].num_executing = desc[i].own_execs
                             /\ <<desc[i].state_list, out[j].type>> \in
                                   {<<"ready", "READY">>, <<"busy", "BUSY">>,
                                    <<"terminated", "TERMINATED">>,
                                    <<"killed", "KILLED">>}

\* C12 witness: a mapping with a destroyed descriptor and a terminated one
\* that carries a reason was rendered into one record
C12_Witness ==
    /\ rpc = "done"
    /\ Len(desc) = 2
    /\ Len(out) = 1
    /\ \E i \in 1..Len(desc) : desc[i].status = "destroyed"
    /\ out[1].type = "TERMINATED"
    /\ out[1].reason = "X"
    /\ out[1].num_executing = 1

\* worker w is in the except TerminateState block of lines 152-167
InTerminateBlock(w) == pc[w] = "handler" /\ hname[w] = "terminate"

\* C13: when execute() raises TerminateState with a reason, the worker
\* publishes will_terminate_state, records the reason on the state, saves it
\* under its existing id, calls terminateState and publishes
\* did_terminate_state, in that order; the id is then in terminated (only)
\* with that reason saved; the worker drops the state and goes back to the
\* loop test, from which, the kill flag being false, it calls getState.
C13_TerminateHandling ==
    /\ [](\A w \in Workers :
            (InTerminateBlock(w) /\ BlockDone(w)) =>
                /\ ops[w] = <<"will_terminate_state", "set_terminated_by", "save",
                              "terminate_state", "did_terminate_state">>
                /\ why[w] \in Reasons
                /\ ListsHolding(cur[w]) = {"terminated"}
                /\ cur[w] \in DOMAIN store
                /\ store[cur[w]] = why[w])
    /\ [][\A w \in Workers :
            /\ (pc[w] = "execute" /\ exc'[w] = "TerminateState") =>
                  (InTerminateBlock(w)' /\ cur'[w] = cur[w] /\ cur[w] \in busy)
            /\ InTerminateBlock(w) =>
                  \/ InTerminateBlock(w)' /\ cur'[w] = cur[w] /\ why'[w] = why[w]
                  \/ BlockDone(w) /\ pc'[w] = "loop" /\ cur'[w] = None
            /\ (pc[w] = "loop" /\ ~killedFlag /\ pc'[w] # "loop") =>
                  (pc'[w] = "get_state" /\ cur'[w] = None)]_vars

\* C13 witness: one worker has terminated state 1 with reason X and is back
\* in getState holding nothing, while the other has not started yet
C13_Witness ==
    \E w \in Workers :
        /\ pc[w] = "get_state"
        /\ cur[w] = None
        /\ ~killedFlag
        /\ 1 \in terminated
        /\ store[1] = "X"
        /\ \A v \in Workers \ {w} : pc[v] = "start"

\* worker w is in the except Concretize block of lines 141-150
InForkBlock(w) == pc[w] = "handler" /\ hname[w] = "fork"

\* C14 (as stated): a successor id that fork returned to the worker instead
\* of queuing it becomes that worker's current state and is recorded in busy;
\* once the worker has left its fork handling, no such id is outside all
\* four lists while no worker holds it.
C14_ForkContinuation ==
    \A id \in handed :
        \/ \E w \in Workers : InForkBlock(w) /\ BlockDone(w)
        \/ id \in Listed
        \/ \E w \in Workers : Holds(w) /\ cur[w] = id

\* C15: a worker that reads the kill flag true in its drive loop saves the
\* state under its existing id and then calls revive on that id, which is
\* still in busy (revive is never called on an id outside busy) and moves to
\* ready; the worker then holds no state, never calls getState again and
\* leaves its loop; the id, being in ready, can be returned by a later
\* getState (it is in ready or already held again by another worker).
C15_KillFlagCheckpoint ==
    /\ [](\A w \in Workers :
            /\ CurOp(w) = "revive_state" => cur[w] \in busy
            /\ (InCheckpointBlock(w) /\ BlockDone(w)) =>
                  /\ ops[w] = <<"save", "revive_state">>
                  /\ cur[w] \in DOMAIN store
                  /\ \/ ListsHolding(cur[w]) = {"ready"}
                     \/ /\ ListsHolding(cur[w]) = {"busy"}
                        /\ \E v \in Workers \ {w} : Holds(v) /\ cur[v] = cur[w])
    /\ [][\A w \in Workers :
            /\ (pc[w] = "check" /\ killedFlag /\ pc'[w] # "check") =>
                  (InCheckpointBlock(w)' /\ cur'[w] = cur[w])
            /\ (InCheckpointBlock(w) /\ CurOp(w) = "save" /\ hi'[w] # hi[w]) =>
                  (DOMAIN store' = DOMAIN store /\ cur[w] \in DOMAIN store /\ nextId' = nextId)
            /\ (CurOp(w) = "revive_state" /\ hi'[w] # hi[w]) =>
                  (cur[w] \in busy /\ cur[w] \in ready' /\ cur[w] \notin busy')
            /\ InCheckpointBlock(w) =>
                  \/ InCheckpointBlock(w)' /\ cur'[w] = cur[w]
                  \/ BlockDone(w) /\ pc'[w] = "loop" /\ cur'[w] = None
            /\ (pc[w] = "loop" /\ killedFlag) => pc'[w] \in {"loop", "exit"}
            /\ pc[w] = "exit" => pc'[w] \in {"exit", "done"}
            /\ pc[w] = "done" => pc'[w] = "done"]_vars

\* C15 witness: a worker has checkpointed state 1 after reading the kill
\* flag, and another worker's getState has returned that same id since
C15_Witness ==
    \E w, v \in Workers :
        /\ w # v
        /\ killedFlag
        /\ InCheckpointBlock(w)
        /\ BlockDone(w)
        /\ pc[v] = "assert"
        /\ cur[v] = cur[w]
        /\ cur[v] \in busy

\* C16: once the kill flag is true, no worker that is not already inside an
\* advance step starts one: a worker mid-drive finishes at most the one
\* execute() call whose loop test it passed before the flag was set and then
\* checkpoints the state, and a worker that acquires a state while the flag
\* is true checkpoints it without calling execute() at all.
C16_BoundedShutdownLatency ==
    [][\A w \in Workers :
        /\ (killedFlag /\ pc[w] # "execute") => pc'[w] # "execute"
        /\ (killedFlag /\ pc[w] = "execute" /\ pc'[w] # "execute") =>
              pc'[w] \in {"check", "handler", "except"}
        /\ (killedFlag /\ pc[w] = "check" /\ pc'[w] # "check") =>
              (InCheckpointBlock(w)' /\ cur'[w] = cur[w])
        /\ (killedFlag /\ pc[w] = "assert" /\ pc'[w] # "assert") =>
              pc'[w] = "check"]_vars

\* C16 witness: the flag is true; one worker has read it and entered the
\* checkpoint of the state it holds, another is in the advance step it had
\* started
C16_Witness ==
    \E w, v \in Workers :
        /\ w # v
        /\ killedFlag
        /\ InCheckpointBlock(w)
        /\ ops[w] = << >>
        /\ pc[v] = "execute"
        /\ cur[v] \in busy

\* Worker.run of w is over: line 192 was passed, or an exception left run()
RunOver(w) == pc[w] \in {"done", "dead"}

\* C17 (as stated): every run of Worker.run publishes will_start_worker
\* exactly once, before its first getState call, and did_terminate_worker
\* exactly once, after its last registry operation, however the loop ends
\* (exhaustion, kill flag, failure, failure inside the failure handling).
C17_LifecycleEvents ==
    \A w \in Workers :
        /\ pc[w] = "start" => life[w] = << >>
        /\ (pc[w] # "start" /\ ~RunOver(w)) => life[w] = <<"will_start_worker">>
        /\ RunOver(w) => life[w] = <<"will_start_worker", "did_terminate_worker">>

\* worker w is in STANDBY: it holds no state and is at the loop test of
\* line 87 or in m._get_state
Idle(w) == pc[w] \in {"loop", "get_state"}

\* C18: a worker leaves its loop because getState returned no state only
\* when, as getState returns, the kill flag is true or ready and busy are
\* both empty; while the flag is false and some id is in ready or busy, no
\* idle worker leaves its loop.
C18_NoPrematureExit ==
    [][\A w \in Workers :
        /\ (pc[w] = "get_state" /\ pc'[w] = "exit") =>
              (killedFlag \/ (ready = {} /\ busy = {}))
        /\ (Idle(w) /\ ~killedFlag /\ (ready \cup busy) # {}) =>
              /\ cur[w] = None
              /\ pc'[w] \in {"loop", "get_state", "assert"}]_vars

\* C18 witness: with the flag false and nothing left in ready or busy, one
\* worker was released by getState with no state while another is still in
\* getState
C18_Witness ==
    \E w, v \in Workers :
        /\ w # v
        /\ ~killedFlag
        /\ ready = {}
        /\ busy = {}
        /\ killed = {}
        /\ pc[w] = "exit"
        /\ cur[w] = None
        /\ pc[v] = "get_state"

\* C19: with a single producer and no dump, after n calls of log_callback on
\* a queue of capacity C the queue holds exactly the last min(n, C) records
\* in arrival order; its size never exceeds C, and a call that finds the
\* queue full removes exactly the oldest record before it adds the new one.
C19_LogEviction ==
    /\ [](/\ Len(queue) <= LogCap
          /\ lpc[TheProducer] = "idle" =>
                LET n == sent
                    m == Min(n, LogCap)
                IN  queue = [i \in 1..m |-> n - m + i])
    /\ [][/\ (lpc[TheProducer] = "get" /\ lpc'[TheProducer] = "put") =>
                (Len(queue) = LogCap /\ queue' = SubSeq(queue, 2, Len(queue)))
          /\ (lpc[TheProducer] = "put" /\ lpc'[TheProducer] = "idle") =>
                queue' = queue \o <<lmsg[TheProducer]>>
          /\ (lpc[TheProducer] = "idle" /\ lpc'[TheProducer] # "idle") =>
                (lpc'[TheProducer] = "get") = (Len(queue) = LogCap)]_vars

\* C19 witness: more calls than the capacity have returned; the queue is
\* full and its oldest record is not the first one logged
C19_Witness ==
    /\ lpc[TheProducer] = "idle"
    /\ sent > LogCap + 1
    /\ Len(queue) = LogCap
    /\ queue[1] = sent - LogCap + 1
    /\ queue[LogCap] = sent

\* C20 (as stated): however a worker's run-loop ended (exhaustion, kill
\* flag, failure, failure while handling fork or terminate, failure of save
\* or killState inside the except block), the state it last held is not in
\* busy; when all workers have ended busy is empty; and a worker holds no
\* state when it calls getState.
C20_NoOrphanedBusyState ==
    /\ \A w \in Workers : (RunOver(w) /\ cur[w] # None) => cur[w] \notin busy
    /\ (\A w \in Workers : RunOver(w)) => busy = {}
    /\ \A w \in Workers : pc[w] = "get_state" => cur[w] = None

====
